---- MODULE Spec2Model ----
(***************************************************************************)
(* A model of michaelpginn/taxo-morph: the IGT corpus loader and record    *)
(* views, the vocabulary builders and the dataset encoder (src/src/data.py)*)
(* and the taxonomic-loss model (src/src/taxonomic_loss_model.py).         *)
(*                                                                         *)
(* Strings are sequences of one-character strings.  Python's None is the   *)
(* value None below, which no sequence of characters equals.  Each         *)
(* operation has its own state and its own specification; the state of the *)
(* operations a specification does not run stays idle.                     *)
(***************************************************************************)
EXTENDS Integers, Sequences, FiniteSets, TLC

VARIABLES
    \* load_data_file (data.py 60-102)
    file,    \* the lines of the file consumed so far, in order
    current_entry,    \* the 4-slot pending buffer
    all_data,    \* the records emitted so far
    pc_load,    \* "loop" while the for loop runs, "done" after the return
    \* IGTLine.gloss_list (data.py 27-41)
    glosses,    \* self.glosses: a string or None
    segmented,    \* the argument
    gloss_out,    \* what the call returned or raised
    pc_gloss,    \* "call" before the call, "done" after it
    \* create_vocab (data.py 108-126)
    sentences,    \* the sentences the outer loop has consumed so far
    threshold,    \* the argument
    should_not_lower,    \* the argument
    all_words,    \* the dict of counts, as its items in insertion order
    vocab_out,    \* the list returned
    pc_vocab,    \* "loop" while the outer loop runs, "done" after the return
    \* create_gloss_vocab (data.py 129-139) and TaxonomicLossModel.get_hierarchy_matrix (taxonomic_loss_model.py 34-60)
    morphology,    \* the tree: a sequence of leaves and groups
    num_labels,    \* config.num_labels, the num_tags of the matrix
    max_depth,    \* the argument of use_morphology_tree
    gloss_vocab,    \* what create_gloss_vocab returned
    walk,    \* the matrix get_hierarchy_matrix built, with the walk's start_tag
    pc_tree,    \* "vocab", then "matrix", then "done"
    \* prepare_dataset (data.py 157-187), on a dataset of one line
    igt_line,    \* the IGTLine of the dataset
    labels,    \* the labels argument: the gloss vocabulary
    model_max_length,    \* tokenizer.model_max_length
    row,    \* the row line.__dict__() gave
    example,    \* the encoded example, if one was made
    prep_raised,    \* the exception the call raised, "" if none
    pc_prep,    \* "rows", then "map", then "done"
    \* TaxonomicLossModel.taxonomic_loss (taxonomic_loss_model.py 63-86)
    hierarchy_matrix,    \* self.hierarchy_matrix: one row per label, one column per level
    num_levels,    \* the number of columns of the matrix (the max_depth it was built with)
    gold,    \* the labels as the caller passed them
    tl_labels,    \* the labels tensor, which line 64 writes into
    level,    \* the loop variable of line 69
    groups,    \* the groups of each level done so far
    group_labels,    \* the group labels of each level done so far
    loss_raised,    \* the exception the call raised, "" if none
    pc_loss,    \* "enter", then "levels", then "done"
    \* finetune_token_classifier.train (finetune_token_classifier.py 73-109)
    loss,    \* the LOSS argument
    train_size,    \* --train_size, 0 when it is not given
    seed,    \* --seed
    train_file,    \* the lines of ../data/usp-train-track2-uncovered
    dev_file,    \* the lines of ../data/usp-dev-track2-uncovered
    run_name,    \* the run name, None before line 78
    rng_seed,    \* the seed given to random, <<>> before line 85
    train_data,    \* the training records
    dev_data,    \* the development records
    train_vocab,    \* the surface vocabulary
    steps,    \* the steps the run has completed, in order
    saved_to,    \* the directory the model was saved to, None if none
    train_raised,    \* the exception that ended the run, "" if none
    pc_train    \* the statement the run is at, "done" once it is over

loadVars == <<file, current_entry, all_data, pc_load>>

glossVars == <<glosses, segmented, gloss_out, pc_gloss>>

vocabVars == <<sentences, threshold, should_not_lower, all_words, vocab_out, pc_vocab>>

treeVars == <<morphology, num_labels, max_depth, gloss_vocab, walk, pc_tree>>

prepVars == <<igt_line, labels, model_max_length, row, example, prep_raised, pc_prep>>

lossVars == <<hierarchy_matrix, num_levels, gold, tl_labels, level, groups, group_labels, loss_raised, pc_loss>>

trainVars == <<loss, train_size, seed, train_file, dev_file, run_name, rng_seed, train_data, dev_data, train_vocab, steps, saved_to, train_raised, pc_train>>

vars == <<loadVars, glossVars, vocabVars, treeVars, prepVars, lossVars, trainVars>>

\* What an operation leaves alone: the state of the other operations
otherThanLoad == <<glossVars, vocabVars, treeVars, prepVars, lossVars, trainVars>>

otherThanGloss == <<loadVars, vocabVars, treeVars, prepVars, lossVars, trainVars>>

otherThanVocab == <<loadVars, glossVars, treeVars, prepVars, lossVars, trainVars>>

otherThanTree == <<loadVars, glossVars, vocabVars, prepVars, lossVars, trainVars>>

otherThanPrep == <<loadVars, glossVars, vocabVars, treeVars, lossVars, trainVars>>

otherThanLoss == <<loadVars, glossVars, vocabVars, treeVars, prepVars, trainVars>>

otherThanTrain == <<loadVars, glossVars, vocabVars, treeVars, prepVars, lossVars>>

----------------------------------------------------------------------------
(* Values shared by the whole model *)

None == <<"<None>">>

Min(a, b) == IF a < b THEN a ELSE b

Max(a, b) == IF a > b THEN a ELSE b

\* What a call gives: a value returned, or the name of the exception raised
Returned(v) == [raised |-> "", value |-> v]

Raised(e) == [raised |-> e, value |-> <<>>]

Whitespace == {" "}

\* str.strip(): leading and trailing whitespace removed
RECURSIVE LStrip(_)
LStrip(s) == IF s # <<>> /\ Head(s) \in Whitespace THEN LStrip(Tail(s)) ELSE s

RECURSIVE RStrip(_)
RStrip(s) ==
    IF s # <<>> /\ s[Len(s)] \in Whitespace THEN RStrip(SubSeq(s, 1, Len(s) - 1)) ELSE s

Strip(s) == RStrip(LStrip(s))

\* s[k:] of Python, k counted from 0
SliceFrom(s, k) == IF k >= Len(s) THEN <<>> ELSE SubSeq(s, k + 1, Len(s))

\* s[:k] of Python
SliceTo(s, k) == SubSeq(s, 1, Min(k, Len(s)))

----------------------------------------------------------------------------
(* load_data_file *)

\* How many lines of a file the model reads
MaxLines == 4

TagT == <<"\\", "t">>
TagM == <<"\\", "m">>
TagP == <<"\\", "p">>
TagL == <<"\\", "l">>

\* The lines a file is made of, without their line terminator (which strip()
\* removes and which cannot be part of a recognised prefix).
Lines ==
    { TagT \o <<" ", "a">>,
      TagT \o <<" ", "b", " ">>,
      TagM \o <<" ", "a">>,
      TagM,
      TagP \o <<" ", "a">>,
      TagP \o <<" ">>,
      TagL \o <<" ", "a">>,
      TagL \o <<"x", " ", "b">>,
      <<>>,
      <<" ">>,
      <<"a">>,
      <<"\\", "x", " ", "a">> }

EmptyEntry == <<None, None, None, None>>

IGTLine(transc, segm, gloss, transl) ==
    [transcription |-> transc, segmentation |-> segm,
     glosses |-> gloss, translation |-> transl]

line_prefix(line) == SliceTo(line, 2)

Content(line) == Strip(SliceFrom(line, 3))

IsFillTBug(line, entry) == line_prefix(line) = TagT

\* if line_prefix == '\\t' and current_entry[0] == None
IsFillT(line, entry) == line_prefix(line) = TagT /\ entry[1] = None

IsFillM(line, entry) ==
    /\ ~IsFillT(line, entry)
    /\ line_prefix(line) = TagM /\ entry[2] = None

IsFillP(line, entry) ==
    /\ ~IsFillT(line, entry) /\ ~IsFillM(line, entry)
    /\ line_prefix(line) = TagP /\ entry[3] = None

IsFillLBug(line, entry) ==
    /\ ~IsFillT(line, entry) /\ ~IsFillM(line, entry) /\ ~IsFillP(line, entry)
    /\ line_prefix(line) = TagL /\ entry[1] # None

IsFillL(line, entry) ==
    /\ ~IsFillT(line, entry) /\ ~IsFillM(line, entry) /\ ~IsFillP(line, entry)
    /\ line_prefix(line) = TagL /\ entry[4] = None

\* elif line.strip() != "": continue
IsSkipped(line, entry) ==
    /\ ~IsFillT(line, entry) /\ ~IsFillM(line, entry)
    /\ ~IsFillP(line, entry) /\ ~IsFillL(line, entry)
    /\ Strip(line) # <<>>

\* The pending buffer after a gloss line: an empty gloss leaves the slot as it is
FillP(line, entry) ==
    IF Len(Content(line)) > 0 THEN [entry EXCEPT ![3] = Content(line)] ELSE entry

\* The else branch of the loop body (a blank line)
FlushBlankBug(entry, data) ==
    [entry |-> EmptyEntry,
     data  |-> Append(data, IGTLine(entry[1], entry[2], entry[3], None))]

FlushBlank(entry, data) ==
    IF entry # EmptyEntry
    THEN [entry |-> EmptyEntry,
          data  |-> Append(data, IGTLine(entry[1], entry[2], entry[3], None))]
    ELSE [entry |-> entry, data |-> data]

\* One iteration of `for line in file`
ReadLine(line) ==
    /\ pc_load = "loop"
    /\ Len(file) < MaxLines
    /\ file' = Append(file, line)
    /\ pc_load' = pc_load
    /\ UNCHANGED otherThanLoad
    /\ CASE IsFillT(line, current_entry) ->
              /\ current_entry' = [current_entry EXCEPT ![1] = Content(line)]
              /\ all_data' = all_data
         [] IsFillM(line, current_entry) ->
              /\ current_entry' = [current_entry EXCEPT ![2] = Content(line)]
              /\ all_data' = all_data
         [] IsFillP(line, current_entry) ->
              /\ current_entry' = FillP(line, current_entry)
              /\ all_data' = all_data
         [] IsFillL(line, current_entry) ->
              /\ all_data' = Append(all_data,
                                    IGTLine(current_entry[1], current_entry[2],
                                            current_entry[3], Content(line)))
              /\ current_entry' = EmptyEntry
         [] IsSkipped(line, current_entry) ->
              /\ current_entry' = current_entry
              /\ all_data' = all_data
         [] OTHER ->
              /\ current_entry' = FlushBlank(current_entry, all_data).entry
              /\ all_data' = FlushBlank(current_entry, all_data).data

\* The end of the file: the flush after the loop, and the return.  The
\* buffer is a local that this flush does not reset.
EndOfFile ==
    /\ pc_load = "loop"
    /\ pc_load' = "done"
    /\ all_data' = IF current_entry # EmptyEntry
                   THEN Append(all_data, IGTLine(current_entry[1], current_entry[2],
                                                 current_entry[3], None))
                   ELSE all_data
    /\ UNCHANGED <<file, current_entry>>
    /\ UNCHANGED otherThanLoad

InitLoadVars ==
    /\ file = <<>>
    /\ current_entry = EmptyEntry
    /\ all_data = <<>>
    /\ pc_load = "loop"

IdleLoad ==
    /\ file = <<>>
    /\ current_entry = EmptyEntry
    /\ all_data = <<>>
    /\ pc_load = "idle"

----------------------------------------------------------------------------
(* IGTLine.gloss_list *)

\* How long a glosses string the model takes
MaxGlossLen == 4

GlossChars == {"a", "b", "-", " "}

SEP == <<"[", "S", "E", "P", "]">>

RECURSIVE StringsUpTo(_, _)
StringsUpTo(chars, n) ==
    IF n = 0 THEN {<<>>}
    ELSE LET shorter == StringsUpTo(chars, n - 1)
         IN  shorter \cup {Append(t, c) : t \in shorter, c \in chars}

\* The glosses the loader stores: None, or a stripped string that is not empty
\* (data.py 76-77)
GlossStrings ==
    {None} \cup {t \in StringsUpTo(GlossChars, MaxGlossLen) : t # <<>> /\ Strip(t) = t}

\* re.split("\s+", s): the pieces between the maximal runs of whitespace,
\* an empty piece before a leading run and after a trailing one
RECURSIVE SplitRuns(_, _, _)
SplitRuns(s, cur, inRun) ==
    IF s = <<>> THEN <<cur>>
    ELSE IF Head(s) \in Whitespace
         THEN IF inRun THEN SplitRuns(Tail(s), cur, TRUE)
              ELSE <<cur>> \o SplitRuns(Tail(s), <<>>, TRUE)
         ELSE SplitRuns(Tail(s), Append(cur, Head(s)), FALSE)

ReSplitWhitespace(s) == SplitRuns(s, <<>>, FALSE)

\* re.split("-", word): the pieces between the hyphens, empty ones included
RECURSIVE SplitAt(_, _, _)
SplitAt(s, sep, cur) ==
    IF s = <<>> THEN <<cur>>
    ELSE IF Head(s) = sep THEN <<cur>> \o SplitAt(Tail(s), sep, <<>>)
         ELSE SplitAt(Tail(s), sep, Append(cur, Head(s)))

ReSplitHyphen(word) == SplitAt(word, "-", <<>>)

\* [x for x in xs if x != drop]
RECURSIVE Without(_, _)
Without(xs, drop) ==
    IF xs = <<>> THEN <<>>
    ELSE IF Head(xs) = drop THEN Without(Tail(xs), drop)
         ELSE <<Head(xs)>> \o Without(Tail(xs), drop)

\* str.split(): the non-empty pieces between the runs of whitespace
StrSplit(s) == Without(ReSplitWhitespace(s), <<>>)

DropEmptyFragments(word_glosses) == Without(word_glosses, <<>>)

\* reduce(lambda a, b: a + ['[SEP]'] + b, glosses), with no initial value
RECURSIVE FoldSep(_, _)
FoldSep(acc, rest) ==
    IF rest = <<>> THEN acc
    ELSE FoldSep(acc \o <<SEP>> \o Head(rest), Tail(rest))

ReduceSep(words) ==
    IF words = <<>> THEN Raised("TypeError")
    ELSE Returned(FoldSep(Head(words), Tail(words)))

\* The fragment lists of the words that keep a fragment (data.py 36-39)
WordGlosses(s) ==
    LET words == ReSplitWhitespace(s)
    IN  Without([w \in 1..Len(words) |-> DropEmptyFragments(ReSplitHyphen(words[w]))], <<>>)

gloss_list(self_glosses, seg) ==
    IF self_glosses = None THEN Returned(<<>>)
    ELSE IF ~seg THEN Returned(StrSplit(self_glosses))
    ELSE ReduceSep(WordGlosses(self_glosses))

CallGlossList ==
    /\ pc_gloss = "call"
    /\ gloss_out' = gloss_list(glosses, segmented)
    /\ pc_gloss' = "done"
    /\ UNCHANGED <<glosses, segmented>>
    /\ UNCHANGED otherThanGloss

InitGlossVars ==
    /\ glosses \in GlossStrings
    /\ segmented \in BOOLEAN
    /\ gloss_out = Returned(<<>>)
    /\ pc_gloss = "call"

IdleGloss ==
    /\ glosses = None
    /\ segmented = FALSE
    /\ gloss_out = Returned(<<>>)
    /\ pc_gloss = "idle"

----------------------------------------------------------------------------
(* create_vocab *)

\* How many tokens (an empty or absent sentence counting for one) a call takes
MaxTokens == 3

\* The largest threshold a call is given
MaxThreshold == 2

UpperChars == {"A", "B", "D", "P"}

LowerChars == {"a", "b", "d", "p"}

\* str.lower() on one character
CharLower(c) ==
    CASE c = "A" -> "a" [] c = "B" -> "b" [] c = "D" -> "d" [] c = "P" -> "p"
      [] OTHER -> c

\* The code point of a character, which orders Python's strings
Code(c) ==
    CASE c = "1" -> 49 [] c = "A" -> 65 [] c = "B" -> 66 [] c = "D" -> 68
      [] c = "E" -> 69 [] c = "P" -> 80 [] c = "S" -> 83
      [] c = "[" -> 91 [] c = "]" -> 93
      [] c = "a" -> 97 [] c = "b" -> 98 [] c = "d" -> 100 [] c = "p" -> 112

PAD == <<"[", "P", "A", "D", "]">>

special_chars == {<<"[", "U", "N", "K", "]">>, SEP, PAD, <<"[", "M", "A", "S", "K", "]">>}

\* The tokens sentences are made of
Words == { <<"a", "b">>, <<"A", "b">>, <<"A", "B">>, PAD }

\* str.lower()
Lower(word) == [i \in 1..Len(word) |-> CharLower(word[i])]

\* str.isupper(): a cased character, and no lower-case one
IsUpper(word) ==
    /\ \E i \in 1..Len(word) : word[i] \in UpperChars
    /\ \A i \in 1..Len(word) : word[i] \notin LowerChars

NormaliseBug(word, not_lower) == IF ~not_lower THEN Lower(word) ELSE word

\* if not word.isupper() and not should_not_lower: word = word.lower()
Normalise(word, not_lower) ==
    IF ~IsUpper(word) /\ ~not_lower THEN Lower(word) ELSE word

\* all_words[word] = all_words.get(word, 0) + 1, on the items of the dict
RECURSIVE Increment(_, _)
Increment(items, word) ==
    IF items = <<>> THEN <<[word |-> word, count |-> 1]>>
    ELSE IF Head(items).word = word
         THEN <<[word |-> word, count |-> Head(items).count + 1]>> \o Tail(items)
         ELSE <<Head(items)>> \o Increment(Tail(items), word)

\* The inner loop over the words of one sentence
RECURSIVE CountWords(_, _, _)
CountWords(items, sentence, not_lower) ==
    IF sentence = <<>> THEN items
    ELSE CountWords(
           IF Normalise(Head(sentence), not_lower) \notin special_chars
           THEN Increment(items, Normalise(Head(sentence), not_lower))
           ELSE items,
           Tail(sentence), not_lower)

\* None where a list of tokens is expected (morphemes() of a line with no
\* segmentation): told from every list of tokens, as None is from every string
NoneList == <<None>>

\* One iteration of the outer loop
CountSentence(items, sentence, not_lower) ==
    IF sentence = NoneList THEN items ELSE CountWords(items, sentence, not_lower)

\* The words whose count reaches the threshold, in the dict's order
RECURSIVE AtLeast(_, _)
AtLeast(items, thr) ==
    IF items = <<>> THEN <<>>
    ELSE IF Head(items).count >= thr
         THEN <<Head(items).word>> \o AtLeast(Tail(items), thr)
         ELSE AtLeast(Tail(items), thr)

\* a < b for Python strings: by code point, a proper prefix first
RECURSIVE StrLess(_, _)
StrLess(a, b) ==
    IF b = <<>> THEN FALSE
    ELSE IF a = <<>> THEN TRUE
    ELSE IF Code(Head(a)) # Code(Head(b)) THEN Code(Head(a)) < Code(Head(b))
    ELSE StrLess(Tail(a), Tail(b))

RECURSIVE InsertSorted(_, _)
InsertSorted(sorted, w) ==
    IF sorted = <<>> THEN <<w>>
    ELSE IF StrLess(w, Head(sorted)) THEN <<w>> \o sorted
    ELSE <<Head(sorted)>> \o InsertSorted(Tail(sorted), w)

\* sorted(xs)
RECURSIVE Sorted(_)
Sorted(xs) ==
    IF xs = <<>> THEN <<>> ELSE InsertSorted(Sorted(Tail(xs)), Head(xs))

\* The lines after the loops: the filter on the counts, and sorted()
VocabOf(items, thr) == Sorted(AtLeast(items, thr))

RECURSIVE CountAll(_, _, _)
CountAll(items, sents, not_lower) ==
    IF sents = <<>> THEN items
    ELSE CountAll(CountSentence(items, Head(sents), not_lower), Tail(sents), not_lower)

\* The whole function
create_vocab(sents, thr, not_lower) == VocabOf(CountAll(<<>>, sents, not_lower), thr)

\* The sentences a call may hold: absent, or a list of tokens
SentencesWithin(budget) ==
    IF budget < 1 THEN {}
    ELSE {NoneList} \cup UNION {[1..n -> Words] : n \in 0..budget}

Cost(sentence) == IF sentence = NoneList \/ sentence = <<>> THEN 1 ELSE Len(sentence)

RECURSIVE TotalCost(_)
TotalCost(sents) ==
    IF sents = <<>> THEN 0 ELSE Cost(Head(sents)) + TotalCost(Tail(sents))

NextSentence(sentence) ==
    /\ pc_vocab = "loop"
    /\ TotalCost(sentences) + Cost(sentence) <= MaxTokens
    /\ sentences' = Append(sentences, sentence)
    /\ all_words' = CountSentence(all_words, sentence, should_not_lower)
    /\ UNCHANGED <<threshold, should_not_lower, vocab_out, pc_vocab>>
    /\ UNCHANGED otherThanVocab

ReturnVocab ==
    /\ pc_vocab = "loop"
    /\ vocab_out' = VocabOf(all_words, threshold)
    /\ pc_vocab' = "done"
    /\ UNCHANGED <<sentences, threshold, should_not_lower, all_words>>
    /\ UNCHANGED otherThanVocab

InitVocabVars ==
    /\ sentences = <<>>
    /\ threshold \in 0..MaxThreshold
    /\ should_not_lower \in BOOLEAN
    /\ all_words = <<>>
    /\ vocab_out = <<>>
    /\ pc_vocab = "loop"

IdleVocab ==
    /\ sentences = <<>>
    /\ threshold = 0
    /\ should_not_lower = FALSE
    /\ all_words = <<>>
    /\ vocab_out = <<>>
    /\ pc_vocab = "idle"

----------------------------------------------------------------------------
(* The morphology tree: create_gloss_vocab and get_hierarchy_matrix *)

\* How many nodes (leaves and groups) a morphology tree has
MaxNodes == 5

\* The largest max_depth a model is given
MaxDepth == 3

\* An item of a tree: a leaf (a gloss string) or a group (a tuple of a label
\* and a subtree).  Its name is its path from the root, which tells the leaves
\* of one tree apart as the gloss strings of a taxonomy do.
Leaf(name) == [tag |-> "leaf", name |-> name, items |-> <<>>]

Group(name, items) == [tag |-> "group", name |-> name, items |-> items]

IsTuple(item) == item.tag = "group"

\* The shapes of the trees of n nodes, every name still empty
RECURSIVE Forests(_)
RECURSIVE ItemsOfSize(_)
Forests(n) ==
    IF n = 0 THEN {<<>>}
    ELSE UNION {{<<it>> \o rest : it \in ItemsOfSize(k), rest \in Forests(n - k)} :
                  k \in 1..n}

ItemsOfSize(k) ==
    (IF k = 1 THEN {Leaf(<<>>)} ELSE {}) \cup {Group(<<>>, f) : f \in Forests(k - 1)}

\* The tree with every item named by its path
RECURSIVE Named(_, _)
Named(tree, path) ==
    [i \in 1..Len(tree) |->
        IF IsTuple(tree[i])
        THEN Group(Append(path, i), Named(tree[i].items, Append(path, i)))
        ELSE Leaf(Append(path, i))]

Trees == UNION {{Named(f, <<>>) : f \in Forests(n)} : n \in 0..MaxNodes}

\* create_gloss_vocab.parse_tree (data.py 130-137)
RECURSIVE FlattenTree(_)
FlattenTree(morphology_subtree) ==
    IF morphology_subtree = <<>> THEN <<>>
    ELSE (IF IsTuple(Head(morphology_subtree))
          THEN FlattenTree(Head(morphology_subtree).items)
          ELSE <<Head(morphology_subtree).name>>)
         \o FlattenTree(Tail(morphology_subtree))

create_gloss_vocab(tree) == FlattenTree(tree)

\* np.zeros((num_tags, max_depth)), rows and columns counted from 0
Zeros(rows, cols) == [r \in 0..(rows - 1) |-> [c \in 0..(cols - 1) |-> 0]]

NumRows(matrix) == Cardinality(DOMAIN matrix)

\* The state of the walk: the matrix the closure writes, the running
\* start_tag, the item that took each row so far (rows[i + 1] took row i) and
\* the exception raised, if any.
WalkStart(num_tags, depth) ==
    [matrix |-> Zeros(num_tags, depth), start_tag |-> 0, rows |-> <<>>,
     raised |-> "", cols |-> depth]

\* if start_tag == 0: start_tag += 1; continue
SkipFirst(w, item) == w.start_tag = 0

LeafRowBug(w, group_prefix) ==
    [c \in 0..(w.cols - 1) |->
        IF c < Len(group_prefix) THEN group_prefix[c + 1]
        ELSE w.matrix[w.start_tag - 1][c] + 2]

\* matrix[start_tag] = matrix[start_tag - 1] + 1
\* matrix[start_tag][:len(group_prefix)] = group_prefix
LeafRow(w, group_prefix) ==
    [c \in 0..(w.cols - 1) |->
        IF c < Len(group_prefix) THEN group_prefix[c + 1]
        ELSE w.matrix[w.start_tag - 1][c] + 1]

VisitLeaf(w, item, group_prefix) ==
    IF w.start_tag >= NumRows(w.matrix) THEN [w EXCEPT !.raised = "IndexError"]
    ELSE IF Len(group_prefix) > w.cols THEN [w EXCEPT !.raised = "ValueError"]
    ELSE [w EXCEPT !.matrix[w.start_tag] = LeafRow(w, group_prefix),
                   !.rows = Append(w.rows, item.name),
                   !.start_tag = w.start_tag + 1]

\* parse_tree of get_hierarchy_matrix (taxonomic_loss_model.py 44-57): the
\* items of tree from the left, the walk state threaded through
RECURSIVE ParseTree(_, _, _)
ParseTree(tree, group_prefix, w) ==
    IF tree = <<>> \/ w.raised # "" THEN w
    ELSE LET item == Head(tree)
         IN  IF SkipFirst(w, item)
             THEN ParseTree(Tail(tree), group_prefix,
                            [w EXCEPT !.start_tag = 1,
                                      !.rows = Append(w.rows, item.name)])
             ELSE IF IsTuple(item)
             THEN IF w.start_tag - 1 >= NumRows(w.matrix) \/ Len(group_prefix) >= w.cols
                  THEN [w EXCEPT !.raised = "IndexError"]
                  ELSE ParseTree(Tail(tree), group_prefix,
                                 ParseTree(item.items,
                                           Append(group_prefix,
                                                  w.matrix[w.start_tag - 1][Len(group_prefix)] + 1),
                                           w))
             ELSE ParseTree(Tail(tree), group_prefix, VisitLeaf(w, item, group_prefix))

get_hierarchy_matrix(hierarchy_tree, num_tags, depth) ==
    ParseTree(hierarchy_tree, <<>>, WalkStart(num_tags, depth))

\* glosses = create_gloss_vocab(morphology)
CreateGlossVocab ==
    /\ pc_tree = "vocab"
    /\ gloss_vocab' = create_gloss_vocab(morphology)
    /\ pc_tree' = "matrix"
    /\ UNCHANGED <<morphology, num_labels, max_depth, walk>>
    /\ UNCHANGED otherThanTree

\* use_morphology_tree(tree, max_depth) (taxonomic_loss_model.py 34-36)
UseMorphologyTree ==
    /\ pc_tree = "matrix"
    /\ walk' = get_hierarchy_matrix(morphology, num_labels, max_depth)
    /\ pc_tree' = "done"
    /\ UNCHANGED <<morphology, num_labels, max_depth, gloss_vocab>>
    /\ UNCHANGED otherThanTree

\* A model is configured with as many labels as the tree has leaves, or one more
InitTreeVars ==
    /\ morphology \in Trees
    /\ num_labels \in {Len(FlattenTree(morphology)), Len(FlattenTree(morphology)) + 1}
    /\ max_depth \in 1..MaxDepth
    /\ gloss_vocab = <<>>
    /\ walk = WalkStart(0, 0)
    /\ pc_tree = "vocab"

IdleTree ==
    /\ morphology = <<>>
    /\ num_labels = 0
    /\ max_depth = 0
    /\ gloss_vocab = <<>>
    /\ walk = WalkStart(0, 0)
    /\ pc_tree = "idle"

----------------------------------------------------------------------------
(* prepare_dataset *)

\* How many morphemes a line has at most
MaxMorphemes == 3

\* The largest model_max_length of the tokenizer
MaxModelLength == 2

\* The padding label of line 177, the ignore-index of the loss
IgnoreIndex == -100

\* [x] * k: empty when k <= 0
Repeat(x, k) == [i \in 1..k |-> x]

Morphemes == {<<"a">>, <<"b">>}

\* s.join(parts)
RECURSIVE Join(_, _)
Join(parts, s) ==
    IF parts = <<>> THEN <<>>
    ELSE IF Len(parts) = 1 THEN Head(parts)
    ELSE Head(parts) \o s \o Join(Tail(parts), s)

\* The segmentation lines: absent, or morphemes joined by hyphens
Segmentations ==
    {None} \cup UNION {{Join(ms, <<"-">>) : ms \in [1..n -> Morphemes]} : n \in 0..MaxMorphemes}

\* The gloss lines: absent, one gloss, two glosses of one word, two words,
\* a gloss with stray hyphens, and a line of hyphens only
GlossLines ==
    { None, <<"a">>, <<"a", "-", "b">>, <<"a", " ", "b">>, <<"b", "-", "-">>, <<"-">> }

\* The label vocabularies: the glosses of the taxonomy, with or without [SEP]
LabelLists == { << <<"a">> >>, << <<"a">>, <<"b">> >>, << <<"a">>, SEP, <<"b">> >> }

\* The morpheme tokenizer (tokenizer.morpheme_tokenize_no_punc): the
\* morphemes of a segmentation string, its separators left out
morpheme_tokenize(segmentation) ==
    Without(SplitAt([i \in 1..Len(segmentation) |->
                        IF segmentation[i] \in Whitespace THEN "-" ELSE segmentation[i]],
                    "-", <<>>),
            <<>>)

\* IGTLine.morphemes (data.py 43-47)
morphemes(line) ==
    IF line.segmentation = None THEN NoneList ELSE morpheme_tokenize(line.segmentation)

\* IGTLine.__dict__ (data.py 50-57): the row of the line; a key the line
\* does not get is NoneList here.  should_segment is True (line 22).
RowOf(line) ==
    LET gl == gloss_list(line.glosses, TRUE)
    IN  IF line.glosses # None /\ gl.raised # "" THEN Raised(gl.raised)
        ELSE Returned([glosses   |-> IF line.glosses # None THEN gl.value ELSE NoneList,
                       morphemes |-> morphemes(line)])

\* The tokenizer's vocabulary: the special tokens, then the surface vocabulary
TokenizerVocab ==
    << <<"[", "U", "N", "K", "]">>, SEP, PAD, <<"[", "M", "A", "S", "K", "]">>,
       <<"a">>, <<"b">> >>

\* tokenizer.PAD_ID: the place of [PAD] in the tokenizer's vocabulary
PAD_ID == 2

\* list.index(x): the first place of x, counted from 0, or ValueError
IndexOf(xs, x) ==
    IF \E i \in 1..Len(xs) : xs[i] = x
    THEN Returned((CHOOSE i \in 1..Len(xs) :
                      xs[i] = x /\ \A k \in 1..(i - 1) : xs[k] # x) - 1)
    ELSE Raised("ValueError")

\* tokenizer.convert_tokens_to_ids
convert_tokens_to_ids(tokens) ==
    [i \in 1..Len(tokens) |-> IndexOf(TokenizerVocab, tokens[i]).value]

PadToBug(xs, fill, length) == xs \o Repeat(fill, length)

\* xs += [fill] * (length - len(xs))
PadTo(xs, fill, length) == xs \o Repeat(fill, length - Len(xs))

EncodeLabelsBug(label_list, row_glosses) ==
    Returned([i \in 1..Len(row_glosses) |->
                IF IndexOf(label_list, row_glosses[i]).raised = ""
                THEN IndexOf(label_list, row_glosses[i]).value ELSE IgnoreIndex])

\* [labels.index(gloss) for gloss in row['glosses']]
EncodeLabels(label_list, row_glosses) ==
    IF \E i \in 1..Len(row_glosses) : IndexOf(label_list, row_glosses[i]).raised # ""
    THEN Raised("ValueError")
    ELSE Returned([i \in 1..Len(row_glosses) |-> IndexOf(label_list, row_glosses[i]).value])

NoExample ==
    [made |-> FALSE, input_ids |-> <<>>, attention_mask |-> <<>>,
     has_labels |-> FALSE, labels |-> <<>>]

\* prepare_dataset.process (data.py 163-185)
process(r, label_list, length) ==
    IF r.morphemes = NoneList THEN Raised("KeyError")
    ELSE LET source_enc     == convert_tokens_to_ids(r.morphemes)
             initial_length == Len(source_enc)
             input_ids      == PadTo(source_enc, PAD_ID, length)
             attention_mask == Repeat(1, initial_length)
                               \o Repeat(0, length - initial_length)
         IN  IF r.glosses # NoneList
             THEN LET output_enc == EncodeLabels(label_list, r.glosses)
                  IN  IF output_enc.raised # "" THEN output_enc
                      ELSE Returned([made |-> TRUE, input_ids |-> input_ids,
                                     attention_mask |-> attention_mask,
                                     has_labels |-> TRUE,
                                     labels |-> PadTo(output_enc.value, IgnoreIndex, length)])
             ELSE Returned([made |-> TRUE, input_ids |-> input_ids,
                            attention_mask |-> attention_mask,
                            has_labels |-> FALSE, labels |-> <<>>])

\* raw_dataset = Dataset.from_list([line.__dict__() for line in data])
BuildRow ==
    /\ pc_prep = "rows"
    /\ IF RowOf(igt_line).raised # ""
       THEN /\ prep_raised' = RowOf(igt_line).raised
            /\ pc_prep' = "done"
            /\ row' = row
       ELSE /\ row' = RowOf(igt_line).value
            /\ pc_prep' = "map"
            /\ prep_raised' = prep_raised
    /\ UNCHANGED <<igt_line, labels, model_max_length, example>>
    /\ UNCHANGED otherThanPrep

\* return raw_dataset.map(process)
MapProcess ==
    /\ pc_prep = "map"
    /\ LET res == process(row, labels, model_max_length)
       IN  /\ prep_raised' = res.raised
           /\ example' = IF res.raised = "" THEN res.value ELSE NoExample
    /\ pc_prep' = "done"
    /\ UNCHANGED <<igt_line, labels, model_max_length, row>>
    /\ UNCHANGED otherThanPrep

NoRow == [glosses |-> NoneList, morphemes |-> NoneList]

InitPrepVars ==
    /\ igt_line \in {IGTLine(None, sg, gl, None) : sg \in Segmentations, gl \in GlossLines}
    /\ labels \in LabelLists
    /\ model_max_length \in 1..MaxModelLength
    /\ row = NoRow
    /\ example = NoExample
    /\ prep_raised = ""
    /\ pc_prep = "rows"

IdlePrep ==
    /\ igt_line = IGTLine(None, None, None, None)
    /\ labels = <<>>
    /\ model_max_length = 0
    /\ row = NoRow
    /\ example = NoExample
    /\ prep_raised = ""
    /\ pc_prep = "idle"

----------------------------------------------------------------------------
(* TaxonomicLossModel.taxonomic_loss *)

\* The row index that line 64 writes over the ignore-index
SentinelLabel == 66

\* The levels the loop of line 69 runs through
NumLevels == 5

\* How many positions a batch of labels has at most
MaxPositions == 2

\* How many leaves a group of the model's taxonomy has at most
MaxGroupSize == 3

\* n leaves side by side
LeafRun(n) == [i \in 1..n |-> Leaf(<<>>)]

\* How many chunks of the given size hold n items
ChunkCount(n, size) == (n + size - 1) \div size

\* The items of the k-th chunk, of n items chunked by size
ChunkLen(n, size, k) == Min(size, n - (k - 1) * size)

\* n leaves in groups of g
SubGroups(n, g) ==
    [k \in 1..ChunkCount(n, g) |-> Group(<<>>, LeafRun(ChunkLen(n, g, k)))]

\* n leaves in groups of g groups of g
TopGroups(n, g) ==
    [k \in 1..ChunkCount(n, g * g) |-> Group(<<>>, SubGroups(ChunkLen(n, g * g, k), g))]

\* A taxonomy of n leaves: one leaf, then groups of groups of g leaves
ChunkedTree(n, g) == Named(<<Leaf(<<>>)>> \o TopGroups(n - 1, g), <<>>)

\* The labels a position may hold in a model of n labels
LabelValues(n) == {IgnoreIndex, 0, 1, n - 1}

\* labels[labels == -100] = 66
ReplaceIgnored(batch) ==
    [p \in 1..Len(batch) |-> IF batch[p] = IgnoreIndex THEN SentinelLabel ELSE batch[p]]

StackedBug(matrix, cols) ==
    [r \in 0..NumRows(matrix) |->
        IF r < NumRows(matrix) THEN matrix[r] ELSE [c \in 0..(cols - 1) |-> 0]]

\* np.vstack([self.hierarchy_matrix, [-100] * self.hierarchy_matrix.shape[1]])
Stacked(matrix, cols) ==
    [r \in 0..NumRows(matrix) |->
        IF r < NumRows(matrix) THEN matrix[r] ELSE [c \in 0..(cols - 1) |-> IgnoreIndex]]

\* The values of a set of integers, ascending
RECURSIVE Ascending(_)
Ascending(values) ==
    IF values = {} THEN <<>>
    ELSE LET least == CHOOSE v \in values : \A u \in values : v <= u
         IN  <<least>> \o Ascending(values \ {least})

\* list(self.hierarchy_matrix.groupby(by=level).groups.values()): the rows of
\* each value of the column, the values ascending; KeyError if no such column
GroupsAt(matrix, cols, lvl) ==
    IF lvl >= cols THEN Raised("KeyError")
    ELSE LET keys == Ascending({matrix[r][lvl] : r \in DOMAIN matrix})
         IN  Returned([g \in 1..Len(keys) |-> {r \in DOMAIN matrix : matrix[r][lvl] = keys[g]}])

\* stacked[labels, level]: IndexError for a label that is no row
GroupLabelsAt(matrix, cols, batch, lvl) ==
    IF lvl >= cols \/ \E p \in 1..Len(batch) : batch[p] \notin DOMAIN Stacked(matrix, cols)
    THEN Raised("IndexError")
    ELSE Returned([p \in 1..Len(batch) |-> Stacked(matrix, cols)[batch[p]][lvl]])

\* Line 64: the ignore-index is written over, in the caller's tensor
EnterLoss ==
    /\ pc_loss = "enter"
    /\ tl_labels' = ReplaceIgnored(tl_labels)
    /\ pc_loss' = "levels"
    /\ UNCHANGED <<hierarchy_matrix, num_levels, gold, level, groups, group_labels, loss_raised>>
    /\ UNCHANGED otherThanLoss

\* One iteration of `for level in range(5)` (lines 69-85); the cross-entropy
\* of the level counts the positions whose group label is not the ignore-index
LevelStep ==
    /\ pc_loss = "levels"
    /\ level < NumLevels
    /\ LET gr == GroupsAt(hierarchy_matrix, num_levels, level)
           gl == GroupLabelsAt(hierarchy_matrix, num_levels, tl_labels, level)
       IN  IF gr.raised # ""
           THEN /\ loss_raised' = gr.raised
                /\ pc_loss' = "done"
                /\ UNCHANGED <<level, groups, group_labels>>
           ELSE IF gl.raised # ""
           THEN /\ loss_raised' = gl.raised
                /\ pc_loss' = "done"
                /\ UNCHANGED <<level, groups, group_labels>>
           ELSE /\ groups' = Append(groups, gr.value)
                /\ group_labels' = Append(group_labels, gl.value)
                /\ level' = level + 1
                /\ UNCHANGED <<loss_raised, pc_loss>>
    /\ UNCHANGED <<hierarchy_matrix, num_levels, gold, tl_labels>>
    /\ UNCHANGED otherThanLoss

\* return all_loss
ReturnLoss ==
    /\ pc_loss = "levels"
    /\ level = NumLevels
    /\ pc_loss' = "done"
    /\ UNCHANGED <<hierarchy_matrix, num_levels, gold, tl_labels, level, groups,
                   group_labels, loss_raised>>
    /\ UNCHANGED otherThanLoss

\* A model of 65, 66 or 67 labels, its matrix installed by use_morphology_tree
\* with max_depth 4 or 5
InitLossVars ==
    /\ num_levels \in {NumLevels - 1, NumLevels}
    /\ \E n \in {SentinelLabel - 1, SentinelLabel, SentinelLabel + 1} :
         /\ \E g \in 2..MaxGroupSize :
              hierarchy_matrix = get_hierarchy_matrix(ChunkedTree(n, g), n, num_levels).matrix
         /\ gold \in UNION {[1..k -> LabelValues(n)] : k \in 0..MaxPositions}
    /\ tl_labels = gold
    /\ level = 0
    /\ groups = <<>>
    /\ group_labels = <<>>
    /\ loss_raised = ""
    /\ pc_loss = "enter"

IdleLoss ==
    /\ hierarchy_matrix = Zeros(0, 0)
    /\ num_levels = 0
    /\ gold = <<>>
    /\ tl_labels = <<>>
    /\ level = 0
    /\ groups = <<>>
    /\ group_labels = <<>>
    /\ loss_raised = ""
    /\ pc_loss = "idle"

----------------------------------------------------------------------------
(* finetune_token_classifier.train *)

\* How many lines the training corpus file has at most
MaxFileLines == 2

\* The largest --train_size
MaxTrainSize == 2

\* The largest --seed
MaxSeed == 1

Flat == <<"f", "l", "a", "t">>

Tax == <<"t", "a", "x">>

\* click.Choice(['flat', 'tax'])
LossChoices == {Flat, Tax}

\* The lines of the corpus files: a segmentation, a translation, a blank line
CorpusLines == { TagM \o <<" ", "a">>, TagL \o <<" ", "a">>, <<>> }

\* The corpus files of up to n lines
CorpusFiles(n) == UNION {[1..k -> CorpusLines] : k \in 0..n}

\* The body of the loop of load_data_file on one line (data.py 70-95)
LoopBody(line, st) ==
    CASE IsFillT(line, st.entry) -> [st EXCEPT !.entry[1] = Content(line)]
      [] IsFillM(line, st.entry) -> [st EXCEPT !.entry[2] = Content(line)]
      [] IsFillP(line, st.entry) -> [st EXCEPT !.entry = FillP(line, st.entry)]
      [] IsFillL(line, st.entry) ->
            [entry |-> EmptyEntry,
             data  |-> Append(st.data, IGTLine(st.entry[1], st.entry[2], st.entry[3],
                                               Content(line)))]
      [] IsSkipped(line, st.entry) -> st
      [] OTHER -> FlushBlank(st.entry, st.data)

RECURSIVE LoopOver(_, _)
LoopOver(lines, st) ==
    IF lines = <<>> THEN st ELSE LoopOver(Tail(lines), LoopBody(Head(lines), st))

\* load_data_file (data.py 60-102) on the lines of a file
load_data_file(lines) ==
    LET st == LoopOver(lines, [entry |-> EmptyEntry, data |-> <<>>])
    IN  IF st.entry # EmptyEntry
        THEN Append(st.data, IGTLine(st.entry[1], st.entry[2], st.entry[3], None))
        ELSE st.data

DigitChars == <<"0", "1", "2", "3", "4", "5", "6", "7", "8", "9">>

\* str(n) of a natural number
RECURSIVE DecimalOf(_)
DecimalOf(n) ==
    IF n < 10 THEN <<DigitChars[n + 1]>>
    ELSE DecimalOf(n \div 10) \o <<DigitChars[(n % 10) + 1]>>

\* f"{train_size if train_size else 'full'}-{loss}"; a --train_size that is
\* not given, like one of 0, is falsy
RunNameOf(size, l) ==
    (IF size # 0 THEN DecimalOf(size) ELSE <<"f", "u", "l", "l">>) \o <<"-">> \o l

\* The lists random.sample(population, k) may return: k elements at distinct
\* places, in any order
Samples(population, k) ==
    {[i \in 1..k |-> population[f[i]]] :
        f \in {g \in [1..k -> 1..Len(population)] :
                 \A i, j \in 1..k : i # j => g[i] # g[j]}}

\* create_gloss_vocab(morphology) (data.py 129) called with the positional
\* arguments args: TypeError unless there is exactly one
CallCreateGlossVocab(args) ==
    IF Len(args) # 1 THEN Raised("TypeError")
    ELSE Returned(create_gloss_vocab(args[1]))

\* prepare_dataset(data, tokenizer, labels, device) (data.py 157) called with
\* keyword arguments: TypeError unless they are the parameters
CallPrepareDataset(keywords) ==
    IF keywords # {"data", "tokenizer", "labels", "device"} THEN Raised("TypeError")
    ELSE Returned("dataset")

\* Lines 78-83: the run name, and the tracking run opened under it
WandbInit ==
    /\ pc_train = "init"
    /\ run_name' = RunNameOf(train_size, loss)
    /\ steps' = Append(steps, "tracking")
    /\ pc_train' = "seed"
    /\ UNCHANGED <<loss, train_size, seed, train_file, dev_file, rng_seed, train_data,
                   dev_data, train_vocab, saved_to, train_raised>>
    /\ UNCHANGED otherThanTrain

\* random.seed(seed)
SeedRandom ==
    /\ pc_train = "seed"
    /\ rng_seed' = <<seed>>
    /\ steps' = Append(steps, "seeding")
    /\ pc_train' = "load"
    /\ UNCHANGED <<loss, train_size, seed, train_file, dev_file, run_name, train_data,
                   dev_data, train_vocab, saved_to, train_raised>>
    /\ UNCHANGED otherThanTrain

\* Lines 87-88: both corpus files are read
LoadData ==
    /\ pc_train = "load"
    /\ train_data' = load_data_file(train_file)
    /\ dev_data' = load_data_file(dev_file)
    /\ steps' = Append(steps, "loading")
    /\ pc_train' = "vocab"
    /\ UNCHANGED <<loss, train_size, seed, train_file, dev_file, run_name, rng_seed,
                   train_vocab, saved_to, train_raised>>
    /\ UNCHANGED otherThanTrain

\* train_vocab = create_vocab([line.morphemes() for line in train_data], threshold=1)
CreateTrainVocab ==
    /\ pc_train = "vocab"
    /\ train_vocab' = create_vocab([i \in 1..Len(train_data) |-> morphemes(train_data[i])],
                                   1, FALSE)
    /\ steps' = Append(steps, "vocabulary")
    /\ pc_train' = "sample"
    /\ UNCHANGED <<loss, train_size, seed, train_file, dev_file, run_name, rng_seed,
                   train_data, dev_data, saved_to, train_raised>>
    /\ UNCHANGED otherThanTrain

\* if train_size: train_data = random.sample(train_data, train_size), which
\* raises ValueError for a sample larger than the population
Subsample ==
    /\ pc_train = "sample"
    /\ IF train_size = 0
       THEN /\ pc_train' = "glosses"
            /\ UNCHANGED <<train_data, steps, train_raised>>
       ELSE IF train_size > Len(train_data)
       THEN /\ train_raised' = "ValueError"
            /\ pc_train' = "done"
            /\ UNCHANGED <<train_data, steps>>
       ELSE /\ train_data' \in Samples(train_data, train_size)
            /\ steps' = Append(steps, "subsampling")
            /\ pc_train' = "glosses"
            /\ UNCHANGED train_raised
    /\ UNCHANGED <<loss, train_size, seed, train_file, dev_file, run_name, rng_seed,
                   dev_data, train_vocab, saved_to>>
    /\ UNCHANGED otherThanTrain

\* Lines 95-109, which run without a pause: the gloss vocabulary, the
\* encoding, the model, the training, and the save that follows it
GlossesToSave ==
    /\ pc_train = "glosses"
    /\ pc_train' = "done"
    /\ LET glosses_made == CallCreateGlossVocab(<<>>)
           encoded == CallPrepareDataset({"data", "encoder", "model_input_length", "device"})
       IN  IF glosses_made.raised # ""
           THEN /\ train_raised' = glosses_made.raised
                /\ UNCHANGED <<steps, saved_to>>
           ELSE IF encoded.raised # ""
           THEN /\ train_raised' = encoded.raised
                /\ steps' = Append(steps, "gloss vocabulary")
                /\ UNCHANGED saved_to
           ELSE \/ /\ steps' = steps \o <<"gloss vocabulary", "encoding", "model",
                                       "training", "save">>
                   /\ saved_to' = run_name
                   /\ UNCHANGED train_raised
                \* model = "TODO" (line 105) is no model: the Trainer may reject it
                \/ /\ loss = Tax
                   /\ steps' = steps \o <<"gloss vocabulary", "encoding">>
                   /\ train_raised' = "TypeError"
                   /\ UNCHANGED saved_to
    /\ UNCHANGED <<loss, train_size, seed, train_file, dev_file, run_name, rng_seed,
                   train_data, dev_data, train_vocab>>
    /\ UNCHANGED otherThanTrain

\* One invocation of the command, with its arguments and the corpus files
InitTrainVars ==
    /\ loss \in LossChoices
    /\ train_size \in 0..MaxTrainSize
    /\ seed \in 0..MaxSeed
    /\ train_file \in CorpusFiles(MaxFileLines)
    /\ dev_file \in CorpusFiles(MaxFileLines - 1)
    /\ run_name = None
    /\ rng_seed = <<>>
    /\ train_data = <<>>
    /\ dev_data = <<>>
    /\ train_vocab = <<>>
    /\ steps = <<>>
    /\ saved_to = None
    /\ train_raised = ""
    /\ pc_train = "init"

IdleTrain ==
    /\ loss = Flat
    /\ train_size = 0
    /\ seed = 0
    /\ train_file = <<>>
    /\ dev_file = <<>>
    /\ run_name = None
    /\ rng_seed = <<>>
    /\ train_data = <<>>
    /\ dev_data = <<>>
    /\ train_vocab = <<>>
    /\ steps = <<>>
    /\ saved_to = None
    /\ train_raised = ""
    /\ pc_train = "idle"

----------------------------------------------------------------------------
(* The specifications: one per operation, the others idle *)

InitLoad == InitLoadVars /\ IdleGloss /\ IdleVocab /\ IdleTree /\ IdlePrep /\ IdleLoss /\ IdleTrain

NextLoad ==
    \/ \E line \in Lines : ReadLine(line)
    \/ EndOfFile

SpecLoad == InitLoad /\ [][NextLoad]_vars

InitGloss == InitGlossVars /\ IdleLoad /\ IdleVocab /\ IdleTree /\ IdlePrep /\ IdleLoss /\ IdleTrain

NextGloss ==
    \/ CallGlossList

SpecGloss == InitGloss /\ [][NextGloss]_vars

InitVocab == InitVocabVars /\ IdleLoad /\ IdleGloss /\ IdleTree /\ IdlePrep /\ IdleLoss /\ IdleTrain

NextVocab ==
    \/ \E sentence \in SentencesWithin(MaxTokens - TotalCost(sentences)) : NextSentence(sentence)
    \/ ReturnVocab

SpecVocab == InitVocab /\ [][NextVocab]_vars

InitTree == InitTreeVars /\ IdleLoad /\ IdleGloss /\ IdleVocab /\ IdlePrep /\ IdleLoss /\ IdleTrain

NextTree ==
    \/ CreateGlossVocab
    \/ UseMorphologyTree

SpecTree == InitTree /\ [][NextTree]_vars

InitPrep == InitPrepVars /\ IdleLoad /\ IdleGloss /\ IdleVocab /\ IdleTree /\ IdleLoss /\ IdleTrain

NextPrep ==
    \/ BuildRow
    \/ MapProcess

SpecPrep == InitPrep /\ [][NextPrep]_vars

InitLoss == InitLossVars /\ IdleLoad /\ IdleGloss /\ IdleVocab /\ IdleTree /\ IdlePrep /\ IdleTrain

NextLoss ==
    \/ EnterLoss
    \/ LevelStep
    \/ ReturnLoss

SpecLoss == InitLoss /\ [][NextLoss]_vars

InitTrain == InitTrainVars /\ IdleLoad /\ IdleGloss /\ IdleVocab /\ IdleTree /\ IdlePrep /\ IdleLoss

NextTrain ==
    \/ WandbInit
    \/ SeedRandom
    \/ LoadData
    \/ CreateTrainVocab
    \/ Subsample
    \/ GlossesToSave

SpecTrain == InitTrain /\ [][NextTrain]_vars

\* The script runs on until it returns or raises
SpecTrainLive == SpecTrain /\ WF_vars(NextTrain)

----------------------------------------------------------------------------
(* load_data_file: what the consumed lines say the loader must hold *)

Last(s) == s[Len(s)]

Tags == {TagT, TagM, TagP, TagL}

IsBlank(line) == Strip(line) = <<>>

\* A line that ends a record: a translation line or a blank line
IsBoundary(line) == line_prefix(line) = TagL \/ IsBlank(line)

\* The lines read since the last line that ended a record
RECURSIVE PendingSegment(_)
PendingSegment(f) ==
    IF f = <<>> \/ IsBoundary(Last(f)) THEN <<>>
    ELSE Append(PendingSegment(SubSeq(f, 1, Len(f) - 1)), Last(f))

\* The stripped content of the first line of seg with this tag (None if none)
RECURSIVE FirstContent(_, _, _)
FirstContent(seg, tag, nonEmptyOnly) ==
    IF seg = <<>> THEN None
    ELSE IF line_prefix(Head(seg)) = tag /\ (nonEmptyOnly => Content(Head(seg)) # <<>>)
         THEN Content(Head(seg))
         ELSE FirstContent(Tail(seg), tag, nonEmptyOnly)

ExpectedEntry(f) ==
    <<FirstContent(PendingSegment(f), TagT, FALSE),
      FirstContent(PendingSegment(f), TagM, FALSE),
      FirstContent(PendingSegment(f), TagP, TRUE),
      None>>

\* The stripped contents of the translation lines of f, in order
RECURSIVE TranslationsOf(_)
TranslationsOf(f) ==
    IF f = <<>> THEN <<>>
    ELSE IF line_prefix(Head(f)) = TagL
         THEN <<Content(Head(f))>> \o TranslationsOf(Tail(f))
         ELSE TranslationsOf(Tail(f))

\* The translations of the records that have one, in order
RECURSIVE TranslationsIn(_)
TranslationsIn(data) ==
    IF data = <<>> THEN <<>>
    ELSE IF Head(data).translation # None
         THEN <<Head(data).translation>> \o TranslationsIn(Tail(data))
         ELSE TranslationsIn(Tail(data))

\* The step reads one more line / is the end of the file
ReadStep == pc_load = "loop" /\ Len(file') = Len(file) + 1

EofStep == pc_load = "loop" /\ pc_load' = "done"

AnyPending(entry) == entry[1] # None \/ entry[2] # None \/ entry[3] # None

\* C1: every line with prefix \l at once emits exactly one record, made of the
\* stripped contents of the \t, \m, \p slots filled since the previous
\* emission (absent if not filled) and of the line's own stripped content, and
\* resets the pending buffer; a blank line or the end of the file directly
\* after it emits nothing more; the records keep the order of the file.
C1_TranslationLineEmits ==
    /\ [](TranslationsIn(all_data) = TranslationsOf(file))
    /\ [][ /\ (ReadStep /\ line_prefix(Last(file')) = TagL)
              => /\ all_data' = Append(all_data,
                                       IGTLine(ExpectedEntry(file)[1],
                                               ExpectedEntry(file)[2],
                                               ExpectedEntry(file)[3],
                                               Strip(SliceFrom(Last(file'), 3))))
                 /\ current_entry' = EmptyEntry
           /\ (/\ file # <<>> /\ line_prefix(Last(file)) = TagL
               /\ (EofStep \/ (ReadStep /\ IsBlank(Last(file')))))
              => all_data' = all_data ]_vars

\* A translation line that closed a record with a transcription has been
\* followed by a blank line and the end of the file, and one record stands.
C1_Witness ==
    /\ pc_load = "done"
    /\ Len(file) = 3
    /\ line_prefix(file[1]) = TagT
    /\ line_prefix(file[2]) = TagL
    /\ IsBlank(file[3])
    /\ Len(all_data) = 1
    /\ all_data[1].transcription # None
    /\ all_data[1].translation # None

\* C2 as stated: a blank line or the end of the file emits a record, with
\* the translation absent, exactly when a pending transcription, segmentation
\* or glosses slot is non-absent, and after the emission the buffer is
\* all-absent.
C2_AsStated ==
    [][ (EofStep \/ (ReadStep /\ IsBlank(Last(file'))))
        => IF AnyPending(current_entry)
           THEN /\ all_data' = Append(all_data,
                                      IGTLine(current_entry[1], current_entry[2],
                                              current_entry[3], None))
                /\ current_entry' = EmptyEntry
           ELSE /\ all_data' = all_data
                /\ current_entry' = EmptyEntry ]_vars

\* C2, amended: as above, but only the blank line resets the buffer: the
\* flush at the end of the file appends the record and returns, leaving the
\* local buffer as it was.
C2_BlankOrEofFlush ==
    [][ (EofStep \/ (ReadStep /\ IsBlank(Last(file'))))
        => /\ IF AnyPending(current_entry)
              THEN all_data' = Append(all_data,
                                      IGTLine(current_entry[1], current_entry[2],
                                              current_entry[3], None))
              ELSE all_data' = all_data
           /\ current_entry' = IF EofStep THEN current_entry ELSE EmptyEntry ]_vars

\* Two blank lines in a row have been read after a pending record, which was
\* emitted once, and the end of the file has flushed another one.
C2_Witness ==
    /\ pc_load = "done"
    /\ Len(file) = 4
    /\ IsBlank(file[2]) /\ IsBlank(file[3])
    /\ Len(all_data) = 2
    /\ all_data[1].translation = None
    /\ all_data[2].translation = None
    /\ AnyPending(current_entry)

\* The tag of this line has already occurred among the lines of f
Occurred(tag, f) == \E i \in 1..Len(f) : line_prefix(f[i]) = tag

Unrecognized(line) == ~IsBlank(line) /\ line_prefix(line) \notin Tags

\* C3 as stated: a second line with a tag (\t, \m, \p) that has already
\* occurred for the pending record, and any non-blank line with an
\* unrecognised prefix, changes neither the buffer nor the emitted records.
C3_AsStated ==
    [][ (/\ ReadStep
         /\ \/ /\ line_prefix(Last(file')) \in {TagT, TagM, TagP}
               /\ Occurred(line_prefix(Last(file')), PendingSegment(file))
            \/ Unrecognized(Last(file')))
        => /\ current_entry' = current_entry
           /\ all_data' = all_data
           /\ pc_load' = "loop" ]_vars

SlotOf(tag) == IF tag = TagT THEN 1 ELSE IF tag = TagM THEN 2 ELSE 3

\* C3, amended: a line with a tag (\t, \m, \p) whose slot is already filled
\* for the pending record, and any non-blank line with an unrecognised
\* prefix, changes neither the buffer nor the emitted records and raises
\* nothing; the buffer holds the first filling occurrence of each tag (a \p
\* line with empty content fills nothing, so a later \p line still fills).
C3_FilledSlotWins ==
    /\ [](pc_load = "loop" => current_entry = ExpectedEntry(file))
    /\ [][ (/\ ReadStep
            /\ \/ /\ line_prefix(Last(file')) \in {TagT, TagM, TagP}
                  /\ current_entry[SlotOf(line_prefix(Last(file')))] # None
               \/ Unrecognized(Last(file')))
           => /\ current_entry' = current_entry
              /\ all_data' = all_data
              /\ pc_load' = "loop" ]_vars

\* Two transcription lines with different contents have been read for one
\* record, then an unrecognised line, and the first content stands.
C3_Witness ==
    /\ pc_load = "loop"
    /\ Len(file) = 3
    /\ line_prefix(file[1]) = TagT /\ line_prefix(file[2]) = TagT
    /\ Content(file[1]) # Content(file[2])
    /\ Unrecognized(file[3])
    /\ current_entry[1] = Content(file[1])
    /\ all_data = <<>>

----------------------------------------------------------------------------
(* IGTLine.gloss_list: the sequence the spec describes *)

\* The fragment cur closes: it joins out, after one separator if a word
\* boundary has been passed since the last fragment
Emit(out, cur, boundary) ==
    IF cur = <<>> THEN out
    ELSE IF boundary /\ out # <<>> THEN out \o <<SEP, cur>>
    ELSE Append(out, cur)

\* One pass over the characters: letters grow the fragment, a hyphen closes
\* it, whitespace closes it and marks a word boundary
RECURSIVE Scan(_, _, _, _)
Scan(s, cur, out, boundary) ==
    IF s = <<>> THEN Emit(out, cur, boundary)
    ELSE IF Head(s) \in Whitespace
         THEN Scan(Tail(s), <<>>, Emit(out, cur, boundary), TRUE)
    ELSE IF Head(s) = "-"
         THEN Scan(Tail(s), <<>>, Emit(out, cur, boundary), boundary /\ cur = <<>>)
    ELSE Scan(Tail(s), Append(cur, Head(s)), out, boundary)

ExpectedGlossList(s) == Scan(s, <<>>, <<>>, FALSE)

\* C4: for every non-absent glosses string, gloss_list(segmented=True) returns
\* the words' non-empty hyphen fragments with exactly one [SEP] between
\* consecutive words that keep a fragment: no [SEP] at either end, no two
\* adjacent [SEP], no empty string, and the empty sequence when every word is
\* dropped.
C4_SegmentedGlossList ==
    (pc_gloss = "done" /\ glosses # None /\ segmented)
    => /\ gloss_out.raised = ""
       /\ gloss_out.value = ExpectedGlossList(glosses)
       /\ LET v == gloss_out.value
          IN  /\ v # <<>> => (v[1] # SEP /\ v[Len(v)] # SEP)
              /\ \A i \in 1..Len(v) : v[i] # <<>>
              /\ \A i \in 1..(Len(v) - 1) : ~(v[i] = SEP /\ v[i + 1] = SEP)

----------------------------------------------------------------------------
(* create_vocab: the vocabulary the spec describes *)

Range(xs) == {xs[i] : i \in 1..Len(xs)}

\* The places of the tokens of the sentences that are not absent
TokenPlaces(sents) ==
    {<<i, j>> \in (1..Len(sents)) \X (1..MaxTokens + 1) :
        sents[i] # NoneList /\ j <= Len(sents[i])}

\* A token with no lower-case letter
FullyUpper(word) == \A i \in 1..Len(word) : word[i] \notin LowerChars

\* The token as the vocabulary holds it: lower-cased, unless it is fully
\* upper-case or the flag is set
Normalised(word, not_lower) ==
    IF not_lower \/ FullyUpper(word) THEN word ELSE Lower(word)

\* How many tokens normalise to w, wherever they stand
Occurrences(sents, w, not_lower) ==
    Cardinality({pl \in TokenPlaces(sents) :
                    Normalised(sents[pl[1]][pl[2]], not_lower) = w})

ExpectedVocab(sents, thr, not_lower) ==
    {w \in {Normalised(sents[pl[1]][pl[2]], not_lower) : pl \in TokenPlaces(sents)} :
        Occurrences(sents, w, not_lower) >= thr} \ special_chars

StrictlyAscending(xs) == \A i \in 1..(Len(xs) - 1) : StrLess(xs[i], xs[i + 1])

\* xs with its elements at i and i + 1 exchanged
SwapAt(xs, i) ==
    [k \in 1..Len(xs) |-> IF k = i THEN xs[i + 1] ELSE IF k = i + 1 THEN xs[i] ELSE xs[k]]

\* The inputs one exchange away: two neighbouring sentences, or two
\* neighbouring tokens of one sentence (every permutation is a chain of these)
Exchanges(sents) ==
    {SwapAt(sents, i) : i \in 1..(Len(sents) - 1)}
    \cup {[sents EXCEPT ![pl[1]] = SwapAt(sents[pl[1]], pl[2])] :
            pl \in {q \in TokenPlaces(sents) : q[2] < Len(sents[q[1]])}}

----------------------------------------------------------------------------
(* The morphology tree: labels are positions of the flattening *)

\* How deep the groups of a tree nest (0 for a tree of leaves only)
RECURSIVE TreeDepth(_)
TreeDepth(tree) ==
    IF tree = <<>> THEN 0
    ELSE Max(IF IsTuple(Head(tree)) THEN 1 + TreeDepth(Head(tree).items) ELSE 0,
             TreeDepth(Tail(tree)))

\* The leaves named p and q lie in one group of nesting level j (0 for the
\* groups of the top level): their paths share the j + 1 steps to that group
SameAncestorGroup(p, q, j) ==
    /\ Len(p) > j + 1
    /\ Len(q) > j + 1
    /\ SubSeq(p, 1, j + 1) = SubSeq(q, 1, j + 1)

\* C6: the flattening of create_gloss_vocab and the rows of the matrix walk
\* agree: the leaf at position i of the flattening is the item the walk gives
\* row i, and the walk's final start_tag is the number of leaves, also when
\* the first top-level item is a group.
C6_FlatteningMatchesRows ==
    (/\ pc_tree = "done"
     /\ TreeDepth(morphology) <= max_depth
     /\ num_labels = Len(gloss_vocab))
    => /\ walk.raised = ""
       /\ walk.rows = gloss_vocab
       /\ walk.start_tag = Len(gloss_vocab)

\* C9: for a tree no deeper than max_depth with num_tags leaves, two rows
\* hold the same value in column j exactly when their leaves lie in the same
\* group of level j.
C9_MatrixEncodesHierarchy ==
    (/\ pc_tree = "done"
     /\ TreeDepth(morphology) <= max_depth
     /\ num_labels = Len(gloss_vocab))
    => /\ walk.raised = ""
       /\ \A j \in 0..(max_depth - 1) :
            \A i, k \in 0..(num_labels - 1) :
               i # k =>
                 ((walk.matrix[i][j] = walk.matrix[k][j])
                    <=> SameAncestorGroup(gloss_vocab[i + 1], gloss_vocab[k + 1], j))

----------------------------------------------------------------------------
(* prepare_dataset: the shape of an example, and labels out of vocabulary *)

\* The number of morphemes of the line
NumMorphemes == Len(morphemes(igt_line))

ExampleMade == pc_prep = "done" /\ prep_raised = "" /\ example.made

\* C7 as stated: for any number n of morphemes, also n greater than the
\* maximum length L, input_ids and attention_mask have length exactly L, the
\* mask being n ones then L - n zeros and input_ids the n morpheme ids then
\* L - n copies of PAD_ID.
C7_AsStated ==
    ExampleMade
    => /\ Len(example.input_ids) = model_max_length
       /\ Len(example.attention_mask) = model_max_length
       /\ \A i \in 1..model_max_length :
            /\ example.attention_mask[i] = (IF i <= NumMorphemes THEN 1 ELSE 0)
            /\ example.input_ids[i] =
                 (IF i <= NumMorphemes
                  THEN IndexOf(TokenizerVocab, morphemes(igt_line)[i]).value
                  ELSE PAD_ID)

\* C7, amended: every example made for a line of n morphemes has input_ids
\* and attention_mask of length max(n, L): the n morpheme ids and n ones
\* first, then L - n copies of PAD_ID and L - n zeros when n < L; a line of
\* more than L morphemes is neither padded nor truncated.
C7_ExampleShape ==
    ExampleMade
    => /\ Len(example.input_ids) = Max(NumMorphemes, model_max_length)
       /\ Len(example.attention_mask) = Max(NumMorphemes, model_max_length)
       /\ \A i \in 1..Max(NumMorphemes, model_max_length) :
            /\ example.attention_mask[i] = (IF i <= NumMorphemes THEN 1 ELSE 0)
            /\ example.input_ids[i] =
                 (IF i <= NumMorphemes
                  THEN IndexOf(TokenizerVocab, morphemes(igt_line)[i]).value
                  ELSE PAD_ID)

\* An example has been made for a line shorter than the maximum length, with
\* padding at the end of both sequences.
C7_Witness ==
    /\ ExampleMade
    /\ NumMorphemes = 1
    /\ model_max_length = 2
    /\ example.input_ids[2] = PAD_ID
    /\ example.attention_mask = <<1, 0>>

\* The segmented gloss sequence of the line has an element the labels lack
HasUnknownGloss ==
    /\ row.glosses # NoneList
    /\ \E i \in 1..Len(row.glosses) :
          \A k \in 1..Len(labels) : labels[k] # row.glosses[i]

\* C8: encoding a record whose segmented gloss sequence has an element that
\* is not in the labels fails with a lookup error and makes no example; no
\* default or padding label stands in for the missing gloss.
C8_UnknownGlossRaises ==
    (pc_prep = "done" /\ HasUnknownGloss)
    => /\ prep_raised \in {"ValueError", "KeyError"}
       /\ row.morphemes # NoneList => prep_raised = "ValueError"
       /\ example = NoExample

\* A line of two words, whose gloss sequence holds [SEP], has met labels
\* that hold both glosses but no [SEP], and the call has raised.
C8_Witness ==
    /\ pc_prep = "done"
    /\ row.morphemes # NoneList
    /\ row.glosses = << <<"a">>, SEP, <<"b">> >>
    /\ labels = << <<"a">>, <<"b">> >>
    /\ prep_raised = "ValueError"
    /\ example = NoExample

----------------------------------------------------------------------------
(* Claims about taxonomic_loss *)

\* The call has returned or raised
LossOver == pc_loss = "done"

\* At every one of the five levels, a position whose label was the
\* ignore-index has the group label -100 and a position of real label i has
\* the value of row i of the matrix at that level
MappedAtEveryLevel ==
    /\ loss_raised = ""
    /\ Len(group_labels) = NumLevels
    /\ \A lvl \in 0..(NumLevels - 1) : \A p \in 1..Len(gold) :
         group_labels[lvl + 1][p] =
            IF gold[p] = IgnoreIndex THEN IgnoreIndex
            ELSE hierarchy_matrix[gold[p]][lvl]

\* C10 as the spec states it: for a model of any number of labels whose matrix
\* has the five levels, the call maps every ignored position to the group
\* label -100 and every real label i to row i of the matrix, at each level.
C10_AsStated ==
    (LossOver /\ num_levels >= NumLevels) => MappedAtEveryLevel

\* C10, amended: for a model of exactly 66 labels whose matrix has at least
\* five columns, the call maps every position labelled -100 to the group label
\* -100 at each of the five levels, and every position of real label i to the
\* value of row i of the matrix at that level.
C10_SentinelRowAtSixtySix ==
    (LossOver /\ NumRows(hierarchy_matrix) = SentinelLabel /\ num_levels >= NumLevels)
        => MappedAtEveryLevel

\* A call on 66 labels that returned, with an ignored position and a real one
C10_Witness ==
    /\ LossOver
    /\ loss_raised = ""
    /\ NumRows(hierarchy_matrix) = SentinelLabel
    /\ num_levels = NumLevels
    /\ gold = <<IgnoreIndex, SentinelLabel - 1>>
    /\ tl_labels = <<SentinelLabel, SentinelLabel - 1>>
    /\ group_labels[NumLevels] = <<IgnoreIndex, hierarchy_matrix[SentinelLabel - 1][NumLevels - 1]>>

----------------------------------------------------------------------------
(* Claims about the fine-tuning command *)

\* The steps of a run, in the order the spec gives them; the subsampling is
\* there only when a train size is given
StepsInOrder(size) ==
    <<"tracking", "seeding", "loading", "vocabulary">>
    \o (IF size # 0 THEN <<"subsampling">> ELSE <<>>)
    \o <<"gloss vocabulary", "encoding", "model", "training", "save">>

IsPrefix(xs, ys) == Len(xs) <= Len(ys) /\ \A i \in 1..Len(xs) : xs[i] = ys[i]

\* The steps so far are an initial part of the order, and a model is saved
\* only once the training is among them
StepsAreOrdered ==
    /\ IsPrefix(steps, StepsInOrder(train_size))
    /\ saved_to # None => \E i \in 1..Len(steps) : steps[i] = "training"

\* C11: a run of train with loss flat goes through its steps in order
\* (tracking, seeding, loading, vocabulary, optional subsampling, gloss
\* vocabulary, encoding, model loading, training) and eventually saves the
\* trained model to the directory named {train_size or 'full'}-{loss}, the
\* save coming only after the training.
C11_FlatRunPersistsModel ==
    /\ [](pc_train # "idle" => StepsAreOrdered)
    /\ (pc_train = "init" /\ loss = Flat)
          ~> (saved_to = RunNameOf(train_size, loss) /\ train_raised = "")

----------------------------------------------------------------------------
(* The group labels the loss reads from the matrix *)

\* The values column j of the matrix holds
ColumnValues(matrix, j) == {matrix[r][j] : r \in DOMAIN matrix}

\* The first top-level item of the tree is a leaf
LeafFirst(tree) == tree # <<>> /\ ~IsTuple(Head(tree))

\* C12: for a tree whose first top-level item is a leaf, no deeper than
\* max_depth and with num_tags leaves, every column j of the matrix holds
\* exactly the values 0 .. g_j - 1, g_j being the number of its distinct
\* values; so the group label taxonomic_loss reads for a label at level j is
\* the index, among the groups of the level in ascending order of value, of
\* the group that holds the label, and is a valid class index.
C12_GroupLabelsAreGroupIndices ==
    (/\ pc_tree = "done"
     /\ LeafFirst(morphology)
     /\ TreeDepth(morphology) <= max_depth
     /\ num_labels = Len(gloss_vocab))
    => /\ walk.raised = ""
       /\ \A j \in 0..(max_depth - 1) :
            LET column == ColumnValues(walk.matrix, j)
                level_groups == GroupsAt(walk.matrix, max_depth, j)
            IN  /\ column = 0..(Cardinality(column) - 1)
                /\ level_groups.raised = ""
                /\ Len(level_groups.value) = Cardinality(column)
                /\ \A i \in 0..(num_labels - 1) :
                     LET read == GroupLabelsAt(walk.matrix, max_depth, <<i>>, j)
                     IN  /\ read.raised = ""
                         /\ read.value[1] \in 0..(Len(level_groups.value) - 1)
                         /\ i \in level_groups.value[read.value[1] + 1]

\* The matrix of [a, (G, [b, c]), d] with two columns: column 0 holds three
\* groups, the middle one of two labels
C12_Witness ==
    /\ pc_tree = "done"
    /\ LeafFirst(morphology)
    /\ TreeDepth(morphology) = 1
    /\ max_depth = 2
    /\ num_labels = 4
    /\ Len(gloss_vocab) = 4
    /\ walk.raised = ""
    /\ [r \in 0..3 |-> walk.matrix[r][0]] = [r \in 0..3 |-> IF r = 0 THEN 0 ELSE IF r = 3 THEN 2 ELSE 1]
    /\ GroupsAt(walk.matrix, max_depth, 0).value = <<{0}, {1, 2}, {3}>>

====
